---- MODULE Spec2Model ----
(***************************************************************************)
(* Model of obd_ii2gr.py: the custom-PID decode table, the diagnostics     *)
(* object (connection handling, registration, sampling, CSV logging) and   *)
(* the VVT monitor.                                                        *)
(*                                                                         *)
(* Representation.                                                         *)
(*   - A hexadecimal payload is a sequence of one-character strings.       *)
(*   - A Python value that may be None is a sequence: <<>> is None and     *)
(*     <<v>> is the value v.                                               *)
(*   - A VVT angle x (a float, degrees) is the integer 128 * x; every      *)
(*     b / 128.0 - 50 with b an integer is exact in binary floating point. *)
(*   - A call that may raise yields [exc, val]: exc = "none" and the value *)
(*     in val, or exc naming the exception (val is then <<>>).             *)
(***************************************************************************)
EXTENDS Integers, Sequences, FiniteSets, TLC

VARIABLES
    pc,          \* "new" (not constructed), "idle", "sampling", "log_body"
    connection,  \* self.connection: "None" or "OBD" (a library handle)
    attempt,     \* how the connection attempt of the constructor went
    registered,  \* commands handed to the library by register_custom_pids
    csvFile,     \* the log file: [exists, rows]
    caller,      \* who called get_2gr_specific_data: "get" or "log"
    lastOp,      \* the method called last
    args,        \* its arguments (monitor: duration and transport readings)
    responses,   \* what the transport answered in the current sample, in order
    data,        \* the dict under construction: <<[key, val]>> in key order
    result,      \* "pending", the value returned, or the exception that escaped
    queries,     \* transport queries issued by the current call
    console      \* lines printed by the current call

vars == <<pc, connection, attempt, registered, csvFile, caller, lastOp, args,
          responses, data, result, queries, console>>

-----------------------------------------------------------------------------
(* Bounds of the model. *)

MaxPayloadLen == 4
MaxDuration == 2

-----------------------------------------------------------------------------
(* Python helpers used by the decode lambdas. *)

HexBase == 16
HexDigits == <<"0","1","2","3","4","5","6","7","8","9","A","B","C","D","E","F">>
HexChars == {HexDigits[i] : i \in 1..HexBase}
HexValue(c) == (CHOOSE i \in 1..HexBase : HexDigits[i] = c) - 1

Min(a, b) == IF a < b THEN a ELSE b
Abs(x) == IF x < 0 THEN -x ELSE x

\* s[i:j] for 0 <= i <= j: the slice is clipped to the string, never an error.
PySlice(s, i, j) == SubSeq(s, i + 1, Min(j, Len(s)))

RECURSIVE HexNumber(_)
HexNumber(s) ==
    IF s = <<>> THEN 0
    ELSE HexBase * HexNumber(SubSeq(s, 1, Len(s) - 1)) + HexValue(s[Len(s)])

Raised(e) == [exc |-> e, val |-> <<>>]
Returned(v) == [exc |-> "none", val |-> v]

\* int(s, 16) on a string of hex digits and other characters: ValueError on
\* the empty string and on any character that is no hex digit.
PyInt16(s) ==
    IF s = <<>> \/ \E i \in 1..Len(s) : s[i] \notin HexChars
    THEN Raised("ValueError")
    ELSE Returned(<<HexNumber(s)>>)

-----------------------------------------------------------------------------
(* CUSTOM_PIDS: the decode table. *)

Scale == 128
VvtOffset == 50
AfOffset == 128

CustomPidNames == <<"VVT_ANGLE_BANK1", "VVT_ANGLE_BANK2", "FUEL_TRIM_CELL", "AF_CORRECTION">>

CUSTOM_PIDS ==
    [n \in {CustomPidNames[i] : i \in 1..Len(CustomPidNames)} |->
        CASE n = "VVT_ANGLE_BANK1" -> [command |-> "221160", bytes |-> 4]
          [] n = "VVT_ANGLE_BANK2" -> [command |-> "221165", bytes |-> 4]
          [] n = "FUEL_TRIM_CELL"  -> [command |-> "221150", bytes |-> 2]
          [] n = "AF_CORRECTION"   -> [command |-> "221154", bytes |-> 4]]

\* (int(data[2:4], 16) / 128.0) - 50, as 128 times the float.
DecodeVvtAngleBank1_WrongSlice(payload) ==
    LET b == PyInt16(PySlice(payload, 0, 2))
    IN  IF b.exc # "none" THEN b ELSE Returned(<<b.val[1] - VvtOffset * Scale>>)

DecodeVvtAngleBank1(payload) ==
    LET b == PyInt16(PySlice(payload, 2, 4))
    IN  IF b.exc # "none" THEN b ELSE Returned(<<b.val[1] - VvtOffset * Scale>>)

DecodeVvtAngleBank2(payload) ==
    LET b == PyInt16(PySlice(payload, 2, 4))
    IN  IF b.exc # "none" THEN b ELSE Returned(<<b.val[1] - VvtOffset * Scale>>)

\* int(data, 16)
DecodeFuelTrimCell(payload) == PyInt16(payload)

\* int(data[2:4], 16) - 128
DecodeAfCorrection_NoOffset(payload) == PyInt16(PySlice(payload, 2, 4))

DecodeAfCorrection(payload) ==
    LET b == PyInt16(PySlice(payload, 2, 4))
    IN  IF b.exc # "none" THEN b ELSE Returned(<<b.val[1] - AfOffset>>)

Decode(pid, payload) ==
    CASE pid = "VVT_ANGLE_BANK1" -> DecodeVvtAngleBank1(payload)
      [] pid = "VVT_ANGLE_BANK2" -> DecodeVvtAngleBank2(payload)
      [] pid = "FUEL_TRIM_CELL"  -> DecodeFuelTrimCell(payload)
      [] pid = "AF_CORRECTION"   -> DecodeAfCorrection(payload)

-----------------------------------------------------------------------------
(* The transport collaborator (the obd library), seen from this program. *)

\* The keys of the snapshot after "timestamp", in the order of the dict
\* literal, with the command each one queries.
Params ==
    << [key |-> "rpm",            kind |-> "standard", cmd |-> "RPM"],
       [key |-> "coolant_temp",   kind |-> "standard", cmd |-> "COOLANT_TEMP"],
       [key |-> "vvt_bank1",      kind |-> "custom",   cmd |-> "VVT_ANGLE_BANK1"],
       [key |-> "vvt_bank2",      kind |-> "custom",   cmd |-> "VVT_ANGLE_BANK2"],
       [key |-> "fuel_trim_cell", kind |-> "custom",   cmd |-> "FUEL_TRIM_CELL"],
       [key |-> "af_correction",  kind |-> "custom",   cmd |-> "AF_CORRECTION"],
       [key |-> "throttle_pos",   kind |-> "standard", cmd |-> "THROTTLE_POS"],
       [key |-> "short_term_ft",  kind |-> "standard", cmd |-> "SHORT_FUEL_TRIM_1"],
       [key |-> "long_term_ft",   kind |-> "standard", cmd |-> "LONG_FUEL_TRIM_1"] >>

NumParams == Len(Params)
Timestamp == [key |-> "timestamp", val |-> <<"%Y-%m-%d %H:%M:%S">>]

\* Magnitudes a standard command reports in the model, and the payloads a
\* custom command carries when sampling.
StdMagnitudes == {0, 3500}
SamplePayloads == {<<"6","1","8","0">>, <<"6","1","G","G">>}

NoValue == [kind |-> "novalue", mag |-> <<>>, payload |-> <<>>, exc |-> "none"]
Failure == [kind |-> "raise", mag |-> <<>>, payload |-> <<>>, exc |-> "Exception"]

\* A standard command: a value with a magnitude, no value, a malformed frame
\* (the library hands back an empty response or raises), or a raising query.
StdResponses ==
    {[kind |-> "value", mag |-> <<m>>, payload |-> <<>>, exc |-> "none"] : m \in StdMagnitudes}
    \cup {NoValue, Failure}
    \cup {[kind |-> "malformed", mag |-> <<>>, payload |-> <<>>, exc |-> e] : e \in {"none", "Exception"}}

\* A custom command: a payload (decoded by the registered lambda inside the
\* query), no value, or a raising query.
CustomResponses(payloads) ==
    {[kind |-> "payload", mag |-> <<>>, payload |-> p, exc |-> "none"] : p \in payloads}
    \cup {NoValue, Failure}

\* The answers used where the variety of a sample is not the question.
CoarseStdResponses ==
    {[kind |-> "value", mag |-> <<3500>>, payload |-> <<>>, exc |-> "none"], NoValue, Failure}
CoarsePayloads == {<<"6","1","8","0">>}

\* Every payload of up to MaxPayloadLen characters whose characters 2:4 are
\* hex digits or the letter G, the others being "6" or "G".
Alphabet == HexChars \cup {"G"}
FrameChars == {"6", "G"}
DecodedPositions == {3, 4}
PayloadsOfLen(n) ==
    {[i \in 1..n |-> IF i \in DecodedPositions THEN d[i] ELSE f[i]] :
        f \in [1..n -> FrameChars], d \in [DecodedPositions \cap 1..n -> Alphabet]}
Payloads == UNION {PayloadsOfLen(n) : n \in 0..MaxPayloadLen}

\* self.connection.query(cmd): the response's value, or the exception raised.
Query(param, resp) ==
    IF resp.exc # "none" THEN Raised(resp.exc)
    ELSE IF param.kind = "standard" THEN Returned(resp.mag)
    ELSE IF resp.kind = "payload" THEN Decode(param.cmd, resp.payload)
    ELSE Returned(<<>>)

\* Truth value of response.value: None is false, and a quantity is true
\* exactly when its magnitude is non-zero.
Truthy(value) == value # <<>> /\ value[1] # 0

-----------------------------------------------------------------------------
(* Toyota2GRDiagnostics *)

Exceptions == {"Exception", "ValueError", "KeyError", "NameError", "TypeError"}

\* Names bound in the module's namespace by its import statements.
ModuleImports == {"obd", "datetime", "csv"}
NameBound(n) == n \in ModuleImports

\* connect_obd: try / except Exception around opening the port and the
\* connectivity check.
ConnectObd_KeepsHandle(outcome) ==
    LET body ==
          CASE outcome = "open_raises" ->
                 [connection |-> "None", exc |-> "Exception", console |-> <<>>]
            [] outcome = "not_connected" ->
                 [connection |-> "OBD", exc |-> "ConnectionError", console |-> <<>>]
            [] outcome = "connected" ->
                 [connection |-> "OBD", exc |-> "none", console |-> <<"Connected to 2GR engine">>]
    IN  IF body.exc # "none"
        THEN [connection |-> body.connection, console |-> <<"Connection error">>]
        ELSE [connection |-> body.connection, console |-> body.console]

ConnectObd(outcome) ==
    LET body ==
          CASE outcome = "open_raises" ->
                 [connection |-> "None", exc |-> "Exception", console |-> <<>>]
            [] outcome = "not_connected" ->
                 [connection |-> "OBD", exc |-> "ConnectionError", console |-> <<>>]
            [] outcome = "connected" ->
                 [connection |-> "OBD", exc |-> "none", console |-> <<"Connected to 2GR engine">>]
    IN  IF body.exc # "none"
        THEN [connection |-> "None", console |-> <<"Connection error">>]
        ELSE [connection |-> body.connection, console |-> body.console]

\* register_custom_pids: the commands known to the library afterwards.
RegisterCustomPids(conn, known) ==
    IF conn = "None" THEN known
    ELSE known \cup {[name |-> n, command |-> CUSTOM_PIDS[n].command, bytes |-> CUSTOM_PIDS[n].bytes]
                        : n \in DOMAIN CUSTOM_PIDS}

\* _get_standard_pid
GetStandardPid(param, resp) ==
    LET response == Query(param, resp)
    IN  IF response.exc # "none" THEN response
        ELSE IF Truthy(response.val) THEN Returned(<<response.val[1]>>)
        ELSE Returned(<<>>)

\* _get_custom_pid: the command lookup and the query under a bare except.
GetCustomPid(param, resp, known) ==
    LET lookup == IF \E c \in known : c.name = param.cmd THEN Returned(<<>>) ELSE Raised("KeyError")
        response == IF lookup.exc # "none" THEN lookup ELSE Query(param, resp)
    IN  IF response.exc # "none" THEN Returned(<<>>) ELSE Returned(response.val)

NoArgs == [duration |-> 0, rpm |-> <<>>, vvt_bank1 |-> <<>>, vvt_bank2 |-> <<>>]
NoFile == [exists |-> FALSE, rows |-> <<>>]

Init ==
    /\ pc = "new"
    /\ connection = "None"
    /\ attempt = "none"
    /\ registered = {}
    /\ csvFile = NoFile
    /\ caller = "none"
    /\ lastOp = "none"
    /\ args = NoArgs
    /\ responses = <<>>
    /\ data = <<>>
    /\ result = "pending"
    /\ queries = 0
    /\ console = <<>>

\* A method call starts: what the previous call left behind is dropped.
Begin(op, a) ==
    /\ pc = "idle"
    /\ lastOp' = op
    /\ args' = a
    /\ responses' = <<>>

\* __init__
Construct(outcome) ==
    /\ pc = "new"
    /\ LET c == ConnectObd(outcome)
       IN  /\ connection' = c.connection
           /\ console' = c.console
           /\ registered' = RegisterCustomPids(c.connection, registered)
    /\ attempt' = outcome
    /\ lastOp' = "__init__"
    /\ result' = "None"
    /\ pc' = "idle"
    /\ UNCHANGED <<csvFile, caller, args, responses, data, queries>>

\* register_custom_pids, called again on the constructed object
Register ==
    /\ Begin("register_custom_pids", NoArgs)
    /\ registered' = RegisterCustomPids(connection, registered)
    /\ result' = "None"
    /\ data' = <<>>
    /\ queries' = 0
    /\ console' = <<>>
    /\ UNCHANGED <<pc, connection, attempt, csvFile, caller>>

\* get_2gr_specific_data, up to the first query: None without a connection,
\* else the dict literal starts with the timestamp.
Sample(who) ==
    /\ caller' = who
    /\ queries' = 0
    /\ console' = <<>>
    /\ IF connection = "None"
       THEN /\ data' = <<>>
            /\ pc' = "idle"
            /\ result' = IF who = "log" THEN "False" ELSE "None"
       ELSE /\ data' = <<Timestamp>>
            /\ pc' = "sampling"
            /\ result' = "pending"
    /\ UNCHANGED <<connection, attempt, registered, csvFile>>

Get2grSpecificData ==
    /\ Begin("get_2gr_specific_data", NoArgs)
    /\ Sample("get")

\* log_to_csv, up to the first query of its call of get_2gr_specific_data
LogToCsv ==
    /\ Begin("log_to_csv", NoArgs)
    /\ Sample("log")

\* One entry of the dict literal: the query and what is stored. An exception
\* leaves get_2gr_specific_data, and log_to_csv when it is the caller.
Entry(value, resp) ==
    /\ responses' = Append(responses, resp)
    /\ queries' = queries + 1
    /\ IF value.exc # "none"
       THEN /\ data' = <<>>
            /\ result' = value.exc
            /\ pc' = "idle"
       ELSE /\ data' = Append(data, [key |-> Params[Len(data)].key, val |-> value.val])
            /\ IF Len(data) < NumParams
               THEN pc' = "sampling" /\ result' = "pending"
               ELSE IF caller = "log"
                    THEN pc' = "log_body" /\ result' = "pending"
                    ELSE pc' = "idle" /\ result' = "dict"
    /\ UNCHANGED <<connection, attempt, registered, csvFile, caller, lastOp, args, console>>

QueryStandardFrom(answers) ==
    /\ pc = "sampling"
    /\ Params[Len(data)].kind = "standard"
    /\ \E resp \in answers :
          Entry(GetStandardPid(Params[Len(data)], resp), resp)

QueryCustomFrom(payloads) ==
    /\ pc = "sampling"
    /\ Params[Len(data)].kind = "custom"
    /\ \E resp \in CustomResponses(payloads) :
          Entry(GetCustomPid(Params[Len(data)], resp, registered), resp)

\* The queries of a sample with every answer of the transport ...
QueryStandardAny == QueryStandardFrom(StdResponses)
QueryCustomAny == QueryCustomFrom(SamplePayloads)

\* ... with one answer of each kind that differs for the caller ...
QueryStandard == QueryStandardFrom(CoarseStdResponses)
QueryCustom == QueryCustomFrom(CoarsePayloads)

\* ... and a custom query over every payload up to MaxPayloadLen characters.
QueryCustomWide == QueryCustomFrom(Payloads)

\* A row of the file: the values of the snapshot in key order.
CsvRow(snapshot) == [i \in 1..Len(snapshot) |-> snapshot[i].val]
CsvHeader(snapshot) == [i \in 1..Len(snapshot) |-> <<snapshot[i].key>>]

\* log_to_csv after the snapshot came back: the test of the file's existence
\* names os, which no import binds.
LogToCsvBody ==
    /\ pc = "log_body"
    /\ pc' = "idle"
    /\ IF ~NameBound("os")
       THEN /\ result' = "NameError"
            /\ UNCHANGED csvFile
       ELSE /\ result' = "True"
            /\ csvFile' = [exists |-> TRUE,
                           rows |-> IF csvFile.exists
                                    THEN Append(csvFile.rows, CsvRow(data))
                                    ELSE <<CsvHeader(data), CsvRow(data)>>]
    /\ UNCHANGED <<connection, attempt, registered, caller, lastOp, args,
                   responses, data, queries, console>>

\* What the transport is prepared to report during a monitoring call: engine
\* speed in rpm and the two bank angles in whole degrees.
Readings ==
    [duration : 0..MaxDuration,
     rpm : {<<>>, <<2000>>, <<3000>>, <<3500>>},
     vvt_bank1 : {<<>>, <<2>>, <<10>>},
     vvt_bank2 : {<<>>, <<14>>, <<15>>, <<16>>}]

\* monitor_vvt_synchronization: its first statement names time, which no
\* import binds, so the call ends there.
MonitorVvtSynchronization ==
    /\ \E a \in Readings : Begin("monitor_vvt_synchronization", a)
    /\ ~NameBound("time")
    /\ result' = "NameError"
    /\ data' = <<>>
    /\ queries' = 0
    /\ console' = <<>>
    /\ UNCHANGED <<pc, connection, attempt, registered, csvFile, caller>>

Next ==
    \/ \E outcome \in {"open_raises", "not_connected", "connected"} : Construct(outcome)
    \/ Register
    \/ Get2grSpecificData
    \/ LogToCsv
    \/ QueryStandard
    \/ QueryCustom
    \/ LogToCsvBody
    \/ MonitorVvtSynchronization

Spec == Init /\ [][Next]_vars

-----------------------------------------------------------------------------
(* The sampler alone, on an object constructed with a live connection, with
   every answer of the transport for each of the nine parameters. *)

Connected ==
    /\ pc = "idle"
    /\ connection = "OBD"
    /\ attempt = "connected"
    /\ registered = RegisterCustomPids("OBD", {})
    /\ csvFile = NoFile
    /\ caller = "none"
    /\ lastOp = "__init__"
    /\ args = NoArgs
    /\ responses = <<>>
    /\ data = <<>>
    /\ result = "None"
    /\ queries = 0
    /\ console = <<"Connected to 2GR engine">>

NextSample ==
    \/ Get2grSpecificData
    \/ QueryStandardAny
    \/ QueryCustomAny

SpecSample == Connected /\ [][NextSample]_vars

-----------------------------------------------------------------------------
(* The decode lambdas over every payload: a sample of the connected object
   that has reached a custom parameter, the earlier ones having no value. *)

AtCustom(k) ==
    /\ pc = "sampling"
    /\ connection = "OBD"
    /\ attempt = "connected"
    /\ registered = RegisterCustomPids("OBD", {})
    /\ csvFile = NoFile
    /\ caller = "get"
    /\ lastOp = "get_2gr_specific_data"
    /\ args = NoArgs
    /\ responses = [i \in 1..(k - 1) |-> NoValue]
    /\ data = [i \in 1..k |-> IF i = 1 THEN Timestamp ELSE [key |-> Params[i - 1].key, val |-> <<>>]]
    /\ result = "pending"
    /\ queries = k - 1
    /\ console = <<>>

InitDecode == \E k \in {i \in 1..NumParams : Params[i].kind = "custom"} : AtCustom(k)

\* One decode per behaviour: the parameter reached is the only one answered.
NextDecode ==
    /\ \A i \in 1..Len(responses) : responses[i] = NoValue
    /\ QueryCustomWide

SpecDecode == InitDecode /\ [][NextDecode]_vars

-----------------------------------------------------------------------------
(* Properties *)

Ended(op) == pc = "idle" /\ lastOp = op
Printed(line) == \E i \in 1..Len(console) : console[i] = line
SnapshotComplete == Len(data) = NumParams + 1

\* C1: a failed connection attempt leaves connection = None and the
\* constructor returns; and whenever connection is None on the constructed
\* object, register_custom_pids has registered nothing, get_2gr_specific_data
\* returned None and log_to_csv returned False, with no query issued and no
\* file created.
C1_DisabledState ==
    /\ attempt \in {"open_raises", "not_connected"} =>
          /\ connection = "None"
          /\ lastOp = "__init__" => result = "None"
    /\ (pc # "new" /\ connection = "None") =>
          /\ pc = "idle"
          /\ registered = {}
          /\ queries = 0
          /\ responses = <<>>
          /\ csvFile = NoFile
          /\ lastOp = "register_custom_pids" => result = "None"
          /\ lastOp = "get_2gr_specific_data" => result = "None" /\ data = <<>>
          /\ lastOp = "log_to_csv" => result = "False"

C1_Witness ==
    /\ attempt = "not_connected"
    /\ Ended("log_to_csv")
    /\ result = "False"

\* The answer of the transport makes the parameter fail: no value, a
\* malformed response, a raising query, or a payload the decode rejects.
AnswerFailed(param, resp) ==
    \/ resp.kind \in {"novalue", "malformed", "raise"}
    \/ resp.kind = "payload" /\ Decode(param.cmd, resp.payload).exc # "none"

\* C2: with a live connection, whatever the transport answers for the nine
\* parameters, get_2gr_specific_data returns a snapshot in which every failed
\* parameter is None, and no exception escapes it.
C2_NoExceptionEscapesSampler ==
    (Ended("get_2gr_specific_data") /\ connection = "OBD") =>
        /\ result = "dict"
        /\ SnapshotComplete
        /\ \A i \in 1..NumParams :
              AnswerFailed(Params[i], responses[i]) => data[i + 1].val = <<>>

\* C3: with a live connection and the file absent at first, every
\* log_to_csv call that got its snapshot returns True and leaves the file
\* holding the header row followed by the data rows, the last one being the
\* snapshot's values in key order.
C3_LogWritesHeaderAndRow ==
    (Ended("log_to_csv") /\ connection = "OBD" /\ SnapshotComplete) =>
        /\ result = "True"
        /\ csvFile.exists
        /\ Len(csvFile.rows) >= 2
        /\ csvFile.rows[1] = CsvHeader(data)
        /\ csvFile.rows[Len(csvFile.rows)] = CsvRow(data)

\* A monitoring call on a live connection, long enough for one cycle, is over.
MonitorEnded ==
    /\ Ended("monitor_vvt_synchronization")
    /\ connection = "OBD"
    /\ args.duration >= 1

\* C4: misalignment is flagged in a monitoring call if and only if both bank
\* angles are present and differ by more than 5 degrees.
C4_MisalignmentFlagged ==
    MonitorEnded =>
        (Printed("VVT misalignment detected") <=>
            /\ args.vvt_bank1 # <<>>
            /\ args.vvt_bank2 # <<>>
            /\ Abs(args.vvt_bank1[1] - args.vvt_bank2[1]) > 5)

\* C5: a possible stuck actuator is flagged in a monitoring call when engine
\* speed is above 3000 rpm and the bank 1 angle is within 5 degrees of zero,
\* and is never flagged when engine speed is at or below 3000 rpm.
C5_StuckActuatorFlagged ==
    MonitorEnded =>
        /\ (/\ args.rpm # <<>> /\ args.vvt_bank1 # <<>>
            /\ args.rpm[1] > 3000 /\ Abs(args.vvt_bank1[1]) < 5)
              => Printed("Possible stuck VVT solenoid (Bank 1)")
        /\ (args.rpm # <<>> /\ args.rpm[1] <= 3000)
              => ~Printed("Possible stuck VVT solenoid (Bank 1)")

\* C6: with a live connection, no call of monitor_vvt_synchronization and no
\* call of log_to_csv that got its snapshot ends with an exception.
C6_NoFailureEscalates ==
    (/\ pc = "idle"
     /\ connection = "OBD"
     /\ \/ lastOp = "monitor_vvt_synchronization"
        \/ lastOp = "log_to_csv" /\ SnapshotComplete)
        => result \notin Exceptions

\* Characters 2:4 of the payload are two hex digits; the byte they spell.
WellFormed(payload) ==
    /\ Len(payload) >= 4
    /\ payload[3] \in HexChars
    /\ payload[4] \in HexChars
ByteOf(payload) == HexBase * HexValue(payload[3]) + HexValue(payload[4])

\* The sample has just stored the parameter of command pid, answered by a
\* well-formed payload, at position k.
DecodedAt(k, pid) ==
    /\ Params[k].cmd = pid
    /\ Len(responses) = k
    /\ responses[k].kind = "payload"
    /\ WellFormed(responses[k].payload)

VvtPids == {"VVT_ANGLE_BANK1", "VVT_ANGLE_BANK2"}

\* C7 (as amended): for every byte b, the VVT angle decode of either bank on a
\* well-formed payload spelling b gives b/128.0 - 50, that is 128 * result =
\* b - 6400, and the result lies in [-50, -48.0078125] (128 * result in
\* -6400 .. -6145), with -50 at b = 0 and -48.0078125 at b = 255.
C7_VvtAngleDecode ==
    \A k \in 1..NumParams : \A pid \in VvtPids :
        DecodedAt(k, pid) =>
            LET b == ByteOf(responses[k].payload)
            IN  /\ Len(data) = k + 1
                /\ data[k + 1].val = <<b - 6400>>
                /\ data[k + 1].val[1] \in -6400 .. -6145
                /\ b = 0 => data[k + 1].val[1] = -6400
                /\ b = 255 => data[k + 1].val[1] = -6145

C7_Witness ==
    \E k \in 1..NumParams : \E pid \in VvtPids :
        /\ DecodedAt(k, pid)
        /\ ByteOf(responses[k].payload) = 255
        /\ data[k + 1].val = <<-6145>>

\* C7 (as stated): ... the result lies in [-50, ~+49.2] and that range is
\* attained, the maximum of about +49.2 (128 * result at least 128 * 49) at
\* b = 255.
C7_VvtAngleRangeAsStated ==
    \A k \in 1..NumParams : \A pid \in VvtPids :
        DecodedAt(k, pid) =>
            LET b == ByteOf(responses[k].payload)
            IN  /\ Len(data) = k + 1
                /\ data[k + 1].val = <<b - 6400>>
                /\ data[k + 1].val[1] \in -6400 .. 6298
                /\ b = 0 => data[k + 1].val[1] = -6400
                /\ b = 255 => data[k + 1].val[1] >= 128 * 49

\* C8: for every byte b, the AF-correction decode on a well-formed payload
\* spelling b gives b - 128, an integer in -128 .. 127, with -128 at b = 0 and
\* 127 at b = 255.
C8_AfCorrectionDecode ==
    \A k \in 1..NumParams :
        DecodedAt(k, "AF_CORRECTION") =>
            LET b == ByteOf(responses[k].payload)
            IN  /\ Len(data) = k + 1
                /\ data[k + 1].val = <<b - 128>>
                /\ data[k + 1].val[1] \in -128 .. 127
                /\ b = 0 => data[k + 1].val[1] = -128
                /\ b = 255 => data[k + 1].val[1] = 127

C8_Witness ==
    \E k \in 1..NumParams :
        /\ DecodedAt(k, "AF_CORRECTION")
        /\ ByteOf(responses[k].payload) = 255
        /\ data[k + 1].val = <<127>>

C8_WitnessLow ==
    \E k \in 1..NumParams :
        /\ DecodedAt(k, "AF_CORRECTION")
        /\ ByteOf(responses[k].payload) = 0
        /\ data[k + 1].val = <<-128>>

\* C9: every call of monitor_vvt_synchronization, with or without a
\* connection, ends by leaving its loop and reporting the error count.
C9_MonitorTerminatesAndReports ==
    Ended("monitor_vvt_synchronization") =>
        /\ result = "None"
        /\ Printed("VVT monitoring complete")

\* C10: in a snapshot, a standard parameter for which the transport returned
\* a value holds that value's magnitude, zero included, and one for which it
\* returned no value is None.
C10_StandardValueKept ==
    (Ended("get_2gr_specific_data") /\ result = "dict") =>
        \A i \in 1..NumParams :
            Params[i].kind = "standard" =>
                /\ responses[i].kind = "value" => data[i + 1].val = responses[i].mag
                /\ responses[i].kind = "novalue" => data[i + 1].val = <<>>

====
